---- MODULE Spec2Model ----
(***************************************************************************)
(* A model of the chemosynthetic ocean-world simulation (prototype3.py,    *)
(* which extends prototype2.py by the per-species mean energies).          *)
(*                                                                         *)
(* Energies, sizes, yields and temperatures are Python floats in the       *)
(* source.  They are modelled as IEEE 754 binary64 numbers, and every      *)
(* operation on them rounds as the float operation of the source does.     *)
(***************************************************************************)
EXTENDS Integers, Sequences, FiniteSets, TLC

\* ------------------------------------------------------------------------
\* Bounds of the model
\* ------------------------------------------------------------------------
\* widths 1..MaxWidth of the grid
MaxWidth == 3
\* longest population list drawn by Init
MaxOrganisms == 3
\* longest feature list drawn by Init
MaxFeatures == 2
\* loop iterations of simulate_cycle a run may execute
MaxTurns == 2
\* temperature fields drawn by Init
MaxTempShift == 0

\* calls of metabolize in a run of SpecMetabolize
MaxCalls == 2
\* side of the grid and longest feature list of SpecNearest
NearDim == 3
MaxNearFeatures == 2

\* the grid of main(): size = (50, 50)
WorldSize == 50

\* ------------------------------------------------------------------------
\* Natural numbers of any size, as the sequence of their digits in base
\* 2^LimbBits, lowest digit first and no zero digit at the top (0 is <<>>).
\* They carry the 53-bit significands of Python's floats and the exact
\* sums and products from which the float operations round.
\* ------------------------------------------------------------------------
LimbBits == 14
Base == 2^LimbBits

Abs(n) == IF n < 0 THEN -n ELSE n
Min(a, b) == IF a <= b THEN a ELSE b
Max(a, b) == IF a >= b THEN a ELSE b

Limb(a, k) == IF 1 <= k /\ k <= Len(a) THEN a[k] ELSE 0

RECURSIVE Trim(_)
Trim(a) ==
    IF a = <<>> THEN <<>>
    ELSE IF a[Len(a)] = 0 THEN Trim(SubSeq(a, 1, Len(a) - 1))
    ELSE a

\* the digits d, each possibly outside 0..Base-1, brought into range from
\* the lowest up with the carry (or borrow) c
RECURSIVE Carry(_, _)
Carry(d, c) ==
    IF d = <<>> THEN (IF c = 0 THEN <<>> ELSE <<c % Base>> \o Carry(<<>>, c \div Base))
    ELSE <<(d[1] + c) % Base>> \o Carry(Tail(d), (d[1] + c) \div Base)

\* an integer 0 <= n < 2^31
BigOf(n) == Trim(<<n % Base, (n \div Base) % Base, n \div (Base * Base)>>)

BAdd(a, b) == Carry([k \in 1..Max(Len(a), Len(b)) |-> Limb(a, k) + Limb(b, k)], 0)

\* a - b for a >= b
BSub(a, b) == Trim(Carry([k \in 1..Len(a) |-> a[k] - Limb(b, k)], 0))

\* a * m for a digit m
BMulSmall(a, m) == Trim(Carry([k \in 1..Len(a) |-> a[k] * m], 0))

\* a * Base^n
BShiftLimbs(a, n) == IF a = <<>> THEN <<>> ELSE [k \in 1..n |-> 0] \o a

\* a * b for any a and b: a times each digit of b, shifted and added
RECURSIVE BMulLong(_, _)
BMulLong(a, b) ==
    IF b = <<>> THEN <<>>
    ELSE BAdd(BMulSmall(a, b[1]), BShiftLimbs(BMulLong(a, Tail(b)), 1))

\* a * b for a number b of at most four digits, as a significand is: the
\* products of the digits are summed column by column and then carried
BMul(a, b) ==
    Trim(Carry([j \in 1..(Len(a) + Len(b)) |->
                   Limb(a, j) * Limb(b, 1) + Limb(a, j - 1) * Limb(b, 2)
                     + Limb(a, j - 2) * Limb(b, 3) + Limb(a, j - 3) * Limb(b, 4)], 0))

\* -1, 0, 1 as a < b, a = b, a > b; the digits are compared from the top
RECURSIVE BCmpFrom(_, _, _)
BCmpFrom(a, b, k) ==
    IF k = 0 THEN 0
    ELSE IF a[k] < b[k] THEN -1
    ELSE IF a[k] > b[k] THEN 1
    ELSE BCmpFrom(a, b, k - 1)

BCmp(a, b) ==
    IF Len(a) < Len(b) THEN -1
    ELSE IF Len(a) > Len(b) THEN 1
    ELSE BCmpFrom(a, b, Len(a))

\* the number of binary digits of n, and of a
RECURSIVE Bits(_)
Bits(n) == IF n = 0 THEN 0 ELSE 1 + Bits(n \div 2)

BitLen(a) == IF a = <<>> THEN 0 ELSE LimbBits * (Len(a) - 1) + Bits(a[Len(a)])

\* a * 2^n, a \div 2^n and a % 2^n
BShl(a, n) ==
    IF n = 0 THEN a
    ELSE BShiftLimbs(BMulSmall(a, 2^(n % LimbBits)), n \div LimbBits)

BShr(a, n) ==
    LET q == n \div LimbBits
        r == n % LimbBits
    IN  IF n = 0 THEN a ELSE
        Trim([k \in 1..(Len(a) - q) |->
                 (a[k + q] \div 2^r) + (Limb(a, k + q + 1) % 2^r) * 2^(LimbBits - r)])

BLow(a, n) ==
    LET q == n \div LimbBits
        r == n % LimbBits
    IN  Trim([k \in 1..Min(Len(a), q + 1) |-> IF k <= q THEN a[k] ELSE a[k] % 2^r])

\* <<a \div m, a % m>> for a digit m > 0: the school division from the top
\* digit down, k the digit reached, q the quotient digits found, r the
\* remainder carried
RECURSIVE BDivFrom(_, _, _, _, _)
BDivFrom(a, m, k, q, r) ==
    IF k = 0 THEN <<Trim(q), r>>
    ELSE BDivFrom(a, m, k - 1, <<(r * Base + a[k]) \div m>> \o q, (r * Base + a[k]) % m)

BDivSmall(a, m) == BDivFrom(a, m, Len(a), <<>>, 0)

\* ------------------------------------------------------------------------
\* Python's float: IEEE 754 binary64.  A number is sign * mant * 2^exp; a
\* float has a significand mant of exactly Precision binary digits, or is
\* zero.  Every operation rounds the exact result to the nearest float, a
\* tie to the one with an even significand.  The exponent range (overflow,
\* subnormal numbers), the sign of zero, infinities and NaN are left out:
\* the energies, yields, sizes, temperatures and pressures of the program
\* stay far inside the range and are never negative zero.
\* ------------------------------------------------------------------------
Precision == 53

Dyadic(s, m, e) == [sign |-> s, mant |-> m, exp |-> e]
FZero == Dyadic(1, <<>>, 0)
IsZero(a) == a.mant = <<>>

\* the float nearest to the number d
Round(d) ==
    LET L == BitLen(d.mant)
        k == L - Precision
        q == BShr(d.mant, k)
        c == BCmp(BLow(d.mant, k), BShl(<<1>>, k - 1))
        up == c > 0 \/ (c = 0 /\ q[1] % 2 = 1)
        q1 == IF up THEN BAdd(q, <<1>>) ELSE q
    IN  IF L = 0 THEN FZero
        ELSE IF k <= 0 THEN Dyadic(d.sign, BShl(d.mant, -k), d.exp + k)
        ELSE IF BitLen(q1) > Precision THEN Dyadic(d.sign, BShr(q1, 1), d.exp + k + 1)
        ELSE Dyadic(d.sign, q1, d.exp + k)

\* exact arithmetic on the numbers sign * mant * 2^exp
DNeg(a) == IF IsZero(a) THEN a ELSE Dyadic(-a.sign, a.mant, a.exp)
DAbs(a) == Dyadic(1, a.mant, a.exp)

DAdd(a, b) ==
    IF IsZero(a) THEN b
    ELSE IF IsZero(b) THEN a
    ELSE LET e == Min(a.exp, b.exp)
             A == BShl(a.mant, a.exp - e)
             B == BShl(b.mant, b.exp - e)
             c == BCmp(A, B)
         IN  IF a.sign = b.sign THEN Dyadic(a.sign, BAdd(A, B), e)
             ELSE IF c = 0 THEN FZero
             ELSE IF c > 0 THEN Dyadic(a.sign, BSub(A, B), e)
             ELSE Dyadic(b.sign, BSub(B, A), e)

DSub(a, b) == DAdd(a, DNeg(b))

DMul(a, b) ==
    IF IsZero(a) \/ IsZero(b) THEN FZero
    ELSE Dyadic(a.sign * b.sign, BMulLong(a.mant, b.mant), a.exp + b.exp)

DLess(a, b) == LET d == DSub(a, b) IN ~IsZero(d) /\ d.sign = -1
DEqual(a, b) == IsZero(DSub(a, b))

\* the float operations of the program: int -> float, +, -, *, / by an int,
\* abs, < and max(0, .)
FromInt(n) == Round(Dyadic(IF n < 0 THEN -1 ELSE 1, BigOf(Abs(n)), 0))
FAdd(a, b) == Round(DAdd(a, b))
FNeg(a) == DNeg(a)
FSub(a, b) == Round(DSub(a, b))
FMul(a, b) ==
    IF IsZero(a) \/ IsZero(b) THEN FZero
    ELSE Round(Dyadic(a.sign * b.sign, BMul(a.mant, b.mant), a.exp + b.exp))
FAbs(a) == DAbs(a)

\* a < b for floats: by the signs, then by the exponents, then by the
\* significands
FSign(a) == IF IsZero(a) THEN 0 ELSE a.sign
FLess(a, b) ==
    IF FSign(a) # FSign(b) THEN FSign(a) < FSign(b)
    ELSE IF FSign(a) = 0 THEN FALSE
    ELSE IF a.exp # b.exp THEN (IF a.sign = 1 THEN a.exp < b.exp ELSE b.exp < a.exp)
    ELSE BCmp(a.mant, b.mant) = -a.sign

\* a / n for an integer 0 < n < Base: the quotient of the significand, with
\* twenty-eight more digits than it needs, and one last digit that tells whether
\* the division left a remainder
FDivInt(a, n) ==
    LET qr == BDivSmall(BShl(a.mant, 2 * LimbBits), n)
    IN  Round(Dyadic(a.sign,
                     BAdd(BShl(qr[1], 1), IF qr[2] = 0 THEN <<>> ELSE <<1>>),
                     a.exp - 2 * LimbBits - 1))

\* the float a decimal literal n/d denotes, as 0.7 for 7/10
Float(n, d) == FDivInt(FromInt(n), d)
FOne == FromInt(1)

\* max(0, a): Python returns the first maximal argument, the 0
FMax0(a) == IF FLess(FZero, a) THEN a ELSE FZero

\* ------------------------------------------------------------------------
\* Entity model
\* ------------------------------------------------------------------------
Microbe == "Sulfur-oxidizing Microbe"
Tubeworm == "Giant Tubeworm"
Crab == "Yeti Crab"
Species == {Microbe, Tubeworm, Crab}

ChemicalCompound(name, energy) == [name |-> name, energy |-> energy]

GeologicalFeature(name, compounds, x, y) ==
    [name |-> name, compounds |-> compounds, x |-> x, y |-> y]

Organism(name, energy, size, x, y) ==
    [name |-> name, energy |-> energy, size |-> size, x |-> x, y |-> y]

\* the compounds and features of create_ocean_world
hydrogen_sulfide == ChemicalCompound("Hydrogen Sulfide", Float(1, 2))
methane == ChemicalCompound("Methane", Float(7, 10))
iron == ChemicalCompound("Iron", Float(3, 10))

HydrothermalVent(x, y) ==
    GeologicalFeature("Hydrothermal Vent", <<hydrogen_sulfide, iron>>, x, y)
MethaneSeep(x, y) == GeologicalFeature("Methane Seep", <<methane>>, x, y)

\* a feature constructed with an empty compound list
ExhaustedVent(x, y) == GeologicalFeature("Hydrothermal Vent", <<>>, x, y)

\* ------------------------------------------------------------------------
\* Organism.metabolize and Organism.move
\* ------------------------------------------------------------------------
\* efficiency = 1 - (abs(temperature - 10) / 20) - (abs(pressure - 200) / 400)
Ten == FromInt(10)
TwoHundred == FromInt(200)
Efficiency(temperature, pressure) ==
    FSub(FSub(FOne, FDivInt(FAbs(FSub(temperature, Ten)), 20)),
         FDivInt(FAbs(FSub(pressure, TwoHundred)), 400))

\* the gain without the max(0, ...) that cuts a negative efficiency off
EnergyGained_unclamped(o, c, temperature, pressure) ==
    FMul(FMul(c.energy, o.size), Efficiency(temperature, pressure))

\* the value metabolize returns: compound.energy * self.size * max(0, efficiency)
EnergyGained(o, c, temperature, pressure) ==
    FMul(FMul(c.energy, o.size), FMax0(Efficiency(temperature, pressure)))

\* metabolize: self.energy += energy_gained; return energy_gained.  The
\* organism after the call, and the value returned.
metabolize(o, c, temperature, pressure) ==
    LET gained == EnergyGained(o, c, temperature, pressure)
    IN  [self |-> [o EXCEPT !.energy = FAdd(o.energy, gained)],
         returned |-> gained]

\* a move that stops at the border of the grid instead of wrapping around
Clamp(n, max) == IF n < 0 THEN 0 ELSE IF n >= max THEN max - 1 ELSE n
move_clamped(o, ddx, ddy, max_x, max_y) ==
    [o EXCEPT !.x = Clamp(o.x + ddx, max_x), !.y = Clamp(o.y + ddy, max_y)]

\* Python's % takes the sign of the (positive) divisor, as TLA+'s does
move(o, ddx, ddy, max_x, max_y) ==
    [o EXCEPT !.x = (o.x + ddx) % max_x, !.y = (o.y + ddy) % max_y]

\* ------------------------------------------------------------------------
\* Ecosystem.get_nearby_feature
\* ------------------------------------------------------------------------
\* (f.x - o.x) ** 2 + (f.y - o.y) ** 2, the argument of ** 0.5.  The square
\* root is strictly increasing and exact on the perfect squares, so two
\* distances compare as their squares do.
Dist2(a, b) == (a.x - b.x) * (a.x - b.x) + (a.y - b.y) * (a.y - b.y)

\* a scan that also replaces the best so far by an equal key: of several
\* nearest features it returns the last
RECURSIVE MinScan_last(_, _, _, _)
MinScan_last(fs, o, k, best) ==
    IF k > Len(fs) THEN best
    ELSE MinScan_last(fs, o, k + 1,
                      IF Dist2(fs[k], o) <= Dist2(fs[best], o) THEN k ELSE best)

\* min(features, key): a left-to-right scan that replaces the best so far
\* only by a strictly smaller key
RECURSIVE MinScan(_, _, _, _)
MinScan(fs, o, k, best) ==
    IF k > Len(fs) THEN best
    ELSE MinScan(fs, o, k + 1,
                 IF Dist2(fs[k], o) < Dist2(fs[best], o) THEN k ELSE best)

\* the index in fs of the feature get_nearby_feature returns (fs non-empty)
get_nearby_feature(fs, o) == MinScan(fs, o, 2, 1)

\* ------------------------------------------------------------------------
\* State
\* ------------------------------------------------------------------------
VARIABLES
    features,         \* Ecosystem.features: the list of geological features
    organisms,        \* Ecosystem.organisms: the population list
    size,             \* Ecosystem.size: <<width, height>>
    temperature_map,  \* Ecosystem.temperature_map[x][y]
    i,                \* the index of the organism of the last iteration (0: none yet)
    turns,            \* loop iterations executed so far in the run
    dx, dy,           \* locals of the last iteration: the move delta drawn
    feature,          \* ... the index of the feature foraged on (0: none)
    compound,         \* ... the index of the compound chosen in it (0: none)
    temperature,      \* ... the temperature sampled
    pressure,         \* ... the pressure sampled
    energy_gained,    \* ... the value metabolize returned
    prey,             \* ... the index of the prey chosen (0: none chosen)
    printed,          \* the lines the last iteration printed
    plot_data,        \* <<r>>: the value get_plot_data returned last, <<>>: none
    error             \* the exception that ended the run, "none" while it runs

vars == <<features, organisms, size, temperature_map, i, turns, dx, dy, feature,
          compound, temperature, pressure, energy_gained, prey, printed,
          plot_data, error>>

locals == <<dx, dy, feature, compound, temperature, pressure, energy_gained, prey>>

Width == size[1]
Height == size[2]

\* generate_pressure_map: pressure_map[x][y] = 100 + 10 * y, fixed by the size
generate_pressure_map(sz) ==
    [x \in 0..(sz[1] - 1) |-> [y \in 0..(sz[2] - 1) |-> FromInt(100 + 10 * y)]]

pressure_map == generate_pressure_map(size)

\* ------------------------------------------------------------------------
\* Construction: the configurations Init draws
\* ------------------------------------------------------------------------
GridSizes == {<<w, WorldSize>> : w \in 1..MaxWidth}

\* random.random(): a multiple of 2^-53 in [0, 1).  The draws taken are the
\* smallest, the middle one and the largest: 0, 1/2 and 1 - 2^-53.
LargestRandom == Dyadic(1, BSub(BShl(<<1>>, Precision), <<1>>), -Precision)
RandomDraws == <<Float(1, 2), FZero, LargestRandom>>

\* random.uniform(a, b) for ints a and b: a + (b - a) * random()
uniform(a, b, u) == FAdd(FromInt(a), FMul(FromInt(b - a), u))

\* random.uniform(5, 15) per cell: 10.0, 5.0 and 14.999999999999998, the
\* middle and the two ends of what the call returns, laid out so that
\* neighbouring cells differ
Temperatures == [k \in 1..3 |-> uniform(5, 15, RandomDraws[k])]

generate_temperature_map(sz, shift) ==
    [x \in 0..(sz[1] - 1) |->
        [y \in 0..(sz[2] - 1) |-> Temperatures[((x + y + shift) % 3) + 1]]]

\* the cell the organisms start in: a corner of the grid, from which a
\* move leaves the grid on two sides
StartCell == <<0, 0>>

\* the species of create_ocean_world, with the sizes it gives them
SizeOf(name) ==
    CASE name = Microbe -> Float(1, 100)
      [] name = Tubeworm -> Float(1, 10)
      [] name = Crab -> Float(1, 20)

\* the energies Organism is constructed with: those create_ocean_world
\* passes (1.0, 5.0 and 3.0), and for the tubeworm and the crab also
\* energies at and above the threshold of the predation rule, which the
\* constructor takes as it takes any other (a crab made by
\* create_ocean_world gains at most 0.035 a cycle and is some two hundred
\* cycles away from them)
StartEnergies ==
    {[n \in Species |-> FromInt(e[n])] :
        e \in {(Microbe :> 1) @@ (Tubeworm :> 5) @@ (Crab :> 3),
               (Microbe :> 1) @@ (Tubeworm :> 5) @@ (Crab :> 10),
               (Microbe :> 1) @@ (Tubeworm :> 12) @@ (Crab :> 12)}}

\* the population lists: every list of at most MaxOrganisms species, the
\* members of a species sharing a starting energy, all starting in the same
\* corner
Population(names, energy_of, cell) ==
    [k \in 1..Len(names) |->
        Organism(names[k], energy_of[names[k]], SizeOf(names[k]),
                 cell[1], cell[2])]

SeqsUpTo(S, n) == UNION {[1..k -> S] : k \in 0..n}

Populations(sz) ==
    {Population(names, energy_of, cell) :
        names \in SeqsUpTo(Species, MaxOrganisms),
        energy_of \in StartEnergies,
        cell \in {StartCell}}

\* the feature lists: the first n of vents and seeps set alternately in the
\* two corners, vents first as create_ocean_world lists them, and the list
\* of one feature that has no compounds
FeatureAt(k, sz) ==
    IF k % 2 = 1 THEN HydrothermalVent(0, 0)
    ELSE MethaneSeep(sz[1] - 1, sz[2] - 1)

FeatureLists(sz) ==
    {[k \in 1..n |-> FeatureAt(k, sz)] : n \in 0..MaxFeatures}
        \cup {<<ExhaustedVent(0, 0)>>}

Init ==
    /\ size \in GridSizes
    /\ \E shift \in 0..MaxTempShift :
           temperature_map = generate_temperature_map(size, shift)
    /\ features \in FeatureLists(size)
    /\ organisms \in Populations(size)
    /\ i = 0
    /\ turns = 0
    /\ dx = 0 /\ dy = 0
    /\ feature = 0 /\ compound = 0
    /\ temperature = FZero /\ pressure = FZero /\ energy_gained = FZero
    /\ prey = 0
    /\ printed = <<>>
    /\ plot_data = <<>>
    /\ error = "none"

\* ------------------------------------------------------------------------
\* Ecosystem.simulate_cycle: one iteration of its loop
\* ------------------------------------------------------------------------
\* the predation guard: organism.name == "Yeti Crab" and organism.energy > 10
IsHunting(o) == o.name = Crab /\ FLess(Ten, o.energy)

\* [o for o in self.organisms if o.name == "Giant Tubeworm"], as indices
PreyCandidates(orgs) == {k \in 1..Len(orgs) : orgs[k].name = Tubeworm}

\* a reach that includes the distance 2 itself
InReach_inclusive(p, o) == Dist2(p, o) <= 4

\* ((prey.x - o.x) ** 2 + (prey.y - o.y) ** 2) ** 0.5 < 2
InReach(p, o) == Dist2(p, o) < 4

\* the two statements in the other order: the prey is halved first and the
\* predator then receives half of what is left
Transfer_stale(orgs, k, p) ==
    [orgs EXCEPT ![k].energy = FAdd(orgs[k].energy,
                                    FDivInt(FDivInt(orgs[p].energy, 2), 2)),
                 ![p].energy = FDivInt(orgs[p].energy, 2)]

\* organism.energy += prey.energy / 2; prey.energy /= 2
Transfer(orgs, k, p) ==
    [orgs EXCEPT ![k].energy = FAdd(orgs[k].energy, FDivInt(orgs[p].energy, 2)),
                 ![p].energy = FDivInt(orgs[p].energy, 2)]

ForageLine(o, c, f) ==
    [text |-> "gained energy from", name |-> o.name, x |-> o.x, y |-> o.y,
     compound |-> c.name, feature |-> f.name]

PredationLine(o, p) == [text |-> "preyed on", name |-> o.name, prey |-> p.name]

\* a loop that runs through the list from its end to its start
NextIndex_reversed(k, n) == IF k <= 1 THEN n ELSE k - 1

\* "for organism in self.organisms", cycle after cycle: the index that follows
\* index k in a list of n organisms
NextIndex(k, n) == (k % n) + 1

\* no simulate_cycle is under way: none has begun, or the last one has
\* processed the whole list
BetweenCycles == i = 0 \/ i = Len(organisms)

\* One iteration of "for organism in self.organisms": move, forage on the
\* nearest feature, metabolize, print, then the predation rule.  min() on an
\* empty feature list raises ValueError after the move; random.choice on an
\* empty compound list raises IndexError once the feature is found;
\* random.choice on an empty prey list raises IndexError after the foraging
\* line is printed.
\* The plot data returned for the previous frame are gone by then.
\* The locals of the loop body are bound over one-element sets, so that each
\* is computed once, as the statement that assigns it is executed once.
Iteration ==
    /\ error = "none" /\ turns < MaxTurns
    /\ organisms # <<>>
    /\ turns' = turns + 1
    /\ plot_data' = <<>>
    /\ UNCHANGED <<features, size, temperature_map>>
    /\ \E ddx \in -1..1, ddy \in -1..1,
          k \in {NextIndex(i, Len(organisms))} :
       \E moved \in {move(organisms[k], ddx, ddy, Width, Height)} :
         /\ dx' = ddx /\ dy' = ddy
         /\ i' = k
         /\ IF features = <<>>
            THEN /\ organisms' = [organisms EXCEPT ![k] = moved]
                 /\ error' = "ValueError"
                 /\ printed' = <<>>
                 /\ UNCHANGED <<feature, compound, temperature, pressure,
                                energy_gained, prey>>
            ELSE
              \E f \in {get_nearby_feature(features, moved)} :
              IF features[f].compounds = <<>>
              THEN /\ organisms' = [organisms EXCEPT ![k] = moved]
                   /\ feature' = f
                   /\ error' = "IndexError"
                   /\ printed' = <<>>
                   /\ UNCHANGED <<compound, temperature, pressure,
                                  energy_gained, prey>>
              ELSE
              \E c \in 1..Len(features[f].compounds) :
              \E t \in {temperature_map[moved.x][moved.y]},
                 pr \in {pressure_map[moved.x][moved.y]},
                 comp \in {features[f].compounds[c]} :
              \E call \in {metabolize(moved, comp, t, pr)} :
              \E fed \in {call.self} :
              \E after \in {[organisms EXCEPT ![k] = fed]},
                 line \in {ForageLine(fed, comp, features[f])} :
                /\ feature' = f /\ compound' = c
                /\ temperature' = t /\ pressure' = pr
                /\ energy_gained' = call.returned
                /\ IF ~IsHunting(fed)
                   THEN /\ organisms' = after
                        /\ printed' = <<line>>
                        /\ prey' = 0
                        /\ error' = "none"
                   ELSE IF PreyCandidates(after) = {}
                   THEN /\ organisms' = after
                        /\ printed' = <<line>>
                        /\ prey' = 0
                        /\ error' = "IndexError"
                   ELSE \E p \in PreyCandidates(after) :
                        /\ prey' = p
                        /\ error' = "none"
                        /\ IF InReach(after[p], fed)
                           THEN /\ organisms' = Transfer(after, k, p)
                                /\ printed' = <<line, PredationLine(fed, after[p])>>
                           ELSE /\ organisms' = after
                                /\ printed' = <<line>>

\* simulate_cycle on an empty population: the loop body never runs
CycleEmpty ==
    /\ error = "none" /\ turns < MaxTurns
    /\ organisms = <<>>
    /\ turns' = turns + 1
    /\ printed' = <<>>
    /\ plot_data' = <<>>
    /\ UNCHANGED <<features, organisms, size, temperature_map, i, locals, error>>

\* ------------------------------------------------------------------------
\* Ecosystem.get_plot_data
\* ------------------------------------------------------------------------
Members(orgs, name) == {k \in 1..Len(orgs) : orgs[k].name = name}

\* sum(o.energy for o in self.organisms if o.name == name): the energies
\* are added one by one in list order, from the organism k on, to the sum
\* acc of those before it (the int 0 at the start)
RECURSIVE SumEnergy(_, _, _, _)
SumEnergy(orgs, name, k, acc) ==
    IF k > Len(orgs) THEN acc
    ELSE SumEnergy(orgs, name, k + 1,
                   IF orgs[k].name = name THEN FAdd(acc, orgs[k].energy) ELSE acc)

\* the quotient of the two sums, for a species that has members
MeanEnergy(orgs, name) ==
    FDivInt(SumEnergy(orgs, name, 1, FZero), Cardinality(Members(orgs, name)))

\* a species without members makes its quotient divide by the integer 0
DivisionFails(orgs) == \E name \in Species : Members(orgs, name) = {}

ColorOf(o) ==
    IF o.name = Microbe THEN "r" ELSE IF o.name = Tubeworm THEN "g" ELSE "b"

PlotData(fs, orgs) ==
    [x_features |-> [k \in 1..Len(fs) |-> fs[k].x],
     y_features |-> [k \in 1..Len(fs) |-> fs[k].y],
     x_organisms |-> [k \in 1..Len(orgs) |-> orgs[k].x],
     y_organisms |-> [k \in 1..Len(orgs) |-> orgs[k].y],
     colors |-> [k \in 1..Len(orgs) |-> ColorOf(orgs[k])],
     sizes |-> [k \in 1..Len(orgs) |-> FMul(orgs[k].size, FromInt(100))],
     energies |-> [Microbe |-> MeanEnergy(orgs, Microbe),
                   Tubeworm |-> MeanEnergy(orgs, Tubeworm),
                   Crab |-> MeanEnergy(orgs, Crab)]]

\* get_plot_data, called between two cycles: it changes nothing of the
\* ecosystem and returns the plot data, or raises ZeroDivisionError
GetPlotData ==
    /\ error = "none"
    /\ BetweenCycles
    /\ IF DivisionFails(organisms)
       THEN /\ error' = "ZeroDivisionError"
            /\ plot_data' = <<>>
       ELSE /\ error' = "none"
            /\ plot_data' = <<PlotData(features, organisms)>>
    /\ UNCHANGED <<features, organisms, size, temperature_map, i, turns,
                   locals, printed>>

Next == Iteration \/ CycleEmpty \/ GetPlotData

Spec == Init /\ [][Next]_vars

\* ------------------------------------------------------------------------
\* Organism.metabolize on its own: the arguments are drawn by the initial
\* state and held in the variables of the same names
\* ------------------------------------------------------------------------
Yields == {FZero, Float(3, 10), Float(1, 2), Float(7, 10), FOne}
Sizes == {FZero, Float(1, 100), Float(1, 20), Float(1, 10), FOne}
CallTemperatures ==
    {FromInt(-30), FromInt(5), Float(15, 2), FromInt(10), Float(123, 10),
     FromInt(15), FromInt(40)}
CallPressures ==
    {FromInt(0), FromInt(100), FromInt(190), FromInt(200), FromInt(210),
     FromInt(500), FromInt(590)}

InitMetabolize ==
    /\ size = <<1, 1>>
    /\ temperature_map = generate_temperature_map(size, 0)
    /\ \E y \in Yields :
         features = <<GeologicalFeature("Feature",
                                        <<ChemicalCompound("Compound", y)>>, 0, 0)>>
    /\ \E e \in {FZero, FromInt(3)}, s \in Sizes :
         organisms = <<Organism(Microbe, e, s, 0, 0)>>
    /\ temperature \in CallTemperatures
    /\ pressure \in CallPressures
    /\ i = 1 /\ feature = 1 /\ compound = 1
    /\ turns = 0
    /\ dx = 0 /\ dy = 0
    /\ energy_gained = FZero
    /\ prey = 0
    /\ printed = <<>>
    /\ plot_data = <<>>
    /\ error = "none"

\* organism.metabolize(compound, temperature, pressure)
Metabolize ==
    /\ turns < MaxCalls
    /\ \E call \in {metabolize(organisms[1], features[1].compounds[1],
                                temperature, pressure)} :
         /\ organisms' = [organisms EXCEPT ![1] = call.self]
         /\ energy_gained' = call.returned
    /\ turns' = turns + 1
    /\ UNCHANGED <<features, size, temperature_map, i, dx, dy, feature, compound,
                   temperature, pressure, prey, printed, plot_data, error>>

SpecMetabolize == InitMetabolize /\ [][Metabolize]_vars

\* ------------------------------------------------------------------------
\* Ecosystem.get_nearby_feature on its own: any feature list and any organism
\* position of a small grid
\* ------------------------------------------------------------------------
NearCells == (0..(NearDim - 1)) \X (0..(NearDim - 1))

NearFeature(k, cell) ==
    IF k % 2 = 1 THEN HydrothermalVent(cell[1], cell[2])
    ELSE MethaneSeep(cell[1], cell[2])

NearFeatureLists ==
    {[k \in 1..Len(cells) |-> NearFeature(k, cells[k])] :
        cells \in UNION {[1..n -> NearCells] : n \in 1..MaxNearFeatures}}

InitNearest ==
    /\ size = <<NearDim, NearDim>>
    /\ temperature_map = generate_temperature_map(size, 0)
    /\ features \in NearFeatureLists
    /\ \E c \in NearCells, n \in Species :
         organisms = <<Organism(n, FromInt(1), SizeOf(n), c[1], c[2])>>
    /\ i = 1 /\ feature = 0 /\ compound = 0
    /\ turns = 0
    /\ dx = 0 /\ dy = 0
    /\ temperature = FZero /\ pressure = FZero /\ energy_gained = FZero
    /\ prey = 0
    /\ printed = <<>>
    /\ plot_data = <<>>
    /\ error = "none"

\* feature = self.get_nearby_feature(organism)
Locate ==
    /\ turns = 0
    /\ feature' = get_nearby_feature(features, organisms[1])
    /\ turns' = 1
    /\ UNCHANGED <<features, organisms, size, temperature_map, i, dx, dy,
                   compound, temperature, pressure, energy_gained, prey,
                   printed, plot_data, error>>

SpecNearest == InitNearest /\ [][Locate]_vars

\* ========================================================================
\* Properties
\* ========================================================================
\* a loop iteration of simulate_cycle has just run
Iterated == turns' = turns + 1 /\ organisms # <<>>

\* the squared plain (non-wrapping) distance of two cells
Sq(n) == n * n
PlainDist2(x1, y1, x2, y2) == Sq(x1 - x2) + Sq(y1 - y2)

\* the iteration that has just run found a feature with a compound to
\* forage on, and so came to the predation rule
Foraged == features # <<>> /\ features[feature'].compounds # <<>>

\* the last iteration ended with the predation line
Preyed(lines) == Len(lines) = 2 /\ lines[2].text = "preyed on"

\* ---- C1 ----
\* every organism stands on a cell of the grid
AllInGrid ==
    \A k \in 1..Len(organisms) :
        /\ 0 <= organisms[k].x /\ organisms[k].x < Width
        /\ 0 <= organisms[k].y /\ organisms[k].y < Height

\* the organism of an iteration lands where the delta drawn takes it, wrapped
MovedExactly ==
    Iterated =>
        /\ dx' \in -1..1 /\ dy' \in -1..1
        /\ organisms'[i'].x = (organisms[i'].x + dx') % Width
        /\ organisms'[i'].y = (organisms[i'].y + dy') % Height

\* C1: every organism is inside the grid in every state, and an iteration
\* puts its organism exactly at ((x + dx) mod width, (y + dy) mod height)
\* for the delta (dx, dy) in {-1, 0, 1} x {-1, 0, 1} it drew.
C1_PositionBound == []AllInGrid /\ [][MovedExactly]_vars

\* an organism has stepped off the left and the lower edge and come back in
\* on the opposite edges of a grid three cells wide
C1_Witness ==
    /\ turns > 0 /\ error = "none" /\ Width = 3
    /\ dx = -1 /\ organisms[i].x = Width - 1
    /\ dy = -1 /\ organisms[i].y = Height - 1

\* ---- C2 ----
\* the iteration that has just run ended with a transfer
Transferred == Iterated /\ Preyed(printed')

\* what a transfer leaves exactly as the claim has it.  Organism k has hit
\* organism p; before is the predator's energy just before the event and
\* after the population after it.  The prey keeps half of its energy E,
\* the predator's energy is its energy before plus E/2 as the float
\* addition gives it, and no other organism's energy changes.
TransferHalves(k, p, before, after) ==
    /\ p \in 1..Len(organisms) /\ p # k
    /\ DEqual(DAdd(after[p].energy, after[p].energy), organisms[p].energy)
    /\ after[k].energy = FAdd(before, after[p].energy)
    /\ \A j \in 1..Len(organisms) :
         j \notin {k, p} => after[j].energy = organisms[j].energy

\* predator.energy + prey.energy, computed after the event and before it
SumKept(k, p, before, after) ==
    FAdd(after[k].energy, after[p].energy) = FAdd(before, organisms[p].energy)

\* the exact sum of the two energies moves by no more than the rounding of
\* the predator's addition: half a unit in the last place of its new energy
SumNearlyKept(k, p, before, after) ==
    ~DLess(Dyadic(1, <<1>>, after[k].energy.exp - 1),
           DAbs(DSub(DAdd(after[k].energy, after[p].energy),
                     DAdd(before, organisms[p].energy))))

\* the energies after a predation event against those just before it: the
\* predator has its energy of before this iteration plus this iteration's
\* gain
TransferAsStated ==
    Transferred =>
        \A k \in {i'}, p \in {prey'}, gained \in {energy_gained'},
           after \in {organisms'} :
        \A before \in {FAdd(organisms[k].energy, gained)} :
            TransferHalves(k, p, before, after) /\ SumKept(k, p, before, after)

TransferRounded ==
    Transferred =>
        \A k \in {i'}, p \in {prey'}, gained \in {energy_gained'},
           after \in {organisms'} :
        \A before \in {FAdd(organisms[k].energy, gained)} :
            TransferHalves(k, p, before, after)
                /\ SumNearlyKept(k, p, before, after)

\* C2 as it is stated: when a predation event fires on a prey of energy E,
\* the predator's energy rises by exactly E/2 over its energy just before
\* the event, the prey keeps exactly E/2, the sum predator.energy +
\* prey.energy is the same as before the event, and no other organism's
\* energy changes.  The rise and the sum are read as the float additions
\* a program would compare.
C2_SumUnchanged == [][TransferAsStated]_vars

\* C2, amended: when a predation event fires on a prey of energy E, the
\* predator's energy becomes its energy just before the event plus E/2 as
\* one float addition gives it, the prey keeps exactly E/2, no other
\* organism's energy changes, and the sum predator.energy + prey.energy
\* equals the sum before the event up to the rounding of that addition (at
\* most half a unit in the last place of the predator's new energy), not
\* always to the last digit.
C2_PredationTransfer == [][TransferRounded]_vars

\* a transfer has happened in a population with a bystander, after a gain
\* that is not a whole number
C2_Witness ==
    /\ Preyed(printed) /\ Len(organisms) = 3
    /\ FLess(FZero, organisms[prey].energy)
    /\ FLess(FZero, energy_gained) /\ FLess(energy_gained, FOne)

\* ---- C3 ----
\* the predation line is printed exactly when the three conditions hold
TransferIff ==
    (Iterated /\ Foraged) =>
        \A k \in {i'}, p \in {prey'}, gained \in {energy_gained'},
           after \in {organisms'} :
        \A fed \in {FAdd(organisms[k].energy, gained)} :
        \A triggered \in
              {/\ organisms[k].name = "Yeti Crab"
               /\ FLess(Ten, fed)
               /\ p \in 1..Len(organisms)
               /\ organisms[p].name = "Giant Tubeworm"
               /\ PlainDist2(after[k].x, after[k].y,
                             organisms[p].x, organisms[p].y) < 4} :
            /\ Preyed(printed') <=> triggered
            /\ ~triggered =>
                 /\ after[k].energy = fed
                 /\ \A j \in 1..Len(organisms) :
                      j # k => after[j] = organisms[j]

\* C3: in an organism's turn a transfer happens if and only if the organism
\* is a "Yeti Crab", its energy (after this turn's metabolism) is strictly
\* above 10, and the plain Euclidean distance to the one "Giant Tubeworm"
\* chosen is strictly below 2; otherwise the turn changes only the
\* organism itself.
C3_PredationTrigger == [][TransferIff]_vars

\* a crab has preyed on a tubeworm one cell off diagonally, at distance
\* sqrt(2) < 2
C3_Witness ==
    /\ Preyed(printed) /\ organisms[i].name = "Yeti Crab"
    /\ PlainDist2(organisms[i].x, organisms[i].y,
                  organisms[prey].x, organisms[prey].y) = 2

\* ---- C4 ----
\* 400 * (1 - |t - 10|/20 - |p - 200|/400) = 400 - 20 |t - 10| - |p - 200|,
\* in exact arithmetic
Efficiency400(t, p) ==
    DSub(DSub(FromInt(400), DMul(DAbs(DSub(t, Ten)), FromInt(20))),
         DAbs(DSub(p, TwoHundred)))

\* 400 * yield * size * max(0, 1 - |t - 10|/20 - |p - 200|/400), exact
Gain400(yield, sz, t, p) ==
    IF DLess(FZero, Efficiency400(t, p))
    THEN DMul(DMul(yield, sz), Efficiency400(t, p))
    ELSE FZero

\* a call of metabolize against its arguments and the energy before it:
\* the value returned is yield * size * max(0, efficiency) as the float
\* operations give it, which is the exact value of that product to within
\* yield * size / 2^47
MetabolizeExact ==
    (turns' = turns + 1) =>
        \A o \in {organisms[1]}, c \in {features[1].compounds[1]},
           gained \in {energy_gained'}, after \in {organisms'[1]} :
        \A exact400 \in {Gain400(c.energy, o.size, temperature, pressure)},
           slack400 \in {DMul(DMul(c.energy, o.size), Dyadic(1, <<400>>, -47))} :
            /\ ~DLess(slack400, DAbs(DSub(DMul(gained, FromInt(400)), exact400)))
            /\ ~FLess(gained, FZero)
            /\ after = [o EXCEPT !.energy = FAdd(o.energy, gained)]
            /\ ~FLess(after.energy, o.energy)
            /\ (temperature = Ten /\ pressure = TwoHundred) =>
                 gained = FMul(c.energy, o.size)

\* C4: for a yield >= 0, a size >= 0 and any temperature and pressure,
\* metabolize returns yield * size * max(0, 1 - |t - 10|/20 - |p - 200|/400),
\* which is never negative, adds exactly that to the organism's energy (so
\* the energy never falls) and changes nothing else of the organism; at
\* t = 10 and p = 200 the gain is exactly yield * size.  The products, the
\* quotients and the sum are those of floats.
C4_Metabolism == [][MetabolizeExact]_vars

\* an organism of size 1 has metabolized a compound of yield 1.0 at
\* temperature 10 and pressure 200 and gained exactly 1.0
C4_Witness ==
    /\ turns = 1
    /\ organisms[1].size = FOne /\ features[1].compounds[1].energy = FOne
    /\ temperature = Ten /\ pressure = TwoHundred
    /\ energy_gained = FOne /\ organisms[1].energy = FromInt(4)

\* ---- C5 ----
\* the squared distance of feature k from organism o
FeatureDist2(k, o) == PlainDist2(features[k].x, features[k].y, o.x, o.y)

\* the index returned is that of the first feature at minimal distance
NearestFirst ==
    (turns' = turns + 1) =>
        LET o == organisms[1] IN
        /\ feature' \in 1..Len(features)
        /\ \A j \in 1..Len(features) : FeatureDist2(feature', o) <= FeatureDist2(j, o)
        /\ \A j \in 1..(feature' - 1) : FeatureDist2(j, o) > FeatureDist2(feature', o)
        /\ \A n \in Species, e \in {FZero, FromInt(12)} :
             get_nearby_feature(features, Organism(n, e, FOne, o.x, o.y)) = feature'
        /\ UNCHANGED <<features, organisms>>

\* C5: on a non-empty feature list get_nearby_feature returns a feature at
\* minimal Euclidean distance from the organism, the first of the list among
\* those at that distance; the result depends on the positions alone and the
\* call changes neither the features nor the organisms.
C5_NearestFeature == [][NearestFirst]_vars

\* two features in different cells are equally near and the first was returned
C5_Witness ==
    /\ turns = 1 /\ Len(features) = 2 /\ feature = 1
    /\ <<features[1].x, features[1].y>> # <<features[2].x, features[2].y>>
    /\ FeatureDist2(1, organisms[1]) = FeatureDist2(2, organisms[1])

\* ------------------------------------------------------------------------
\* C6: with no "Giant Tubeworm" in the population the predation rule never
\* fires, even for a crab whose energy exceeds 10: every cycle completes and
\* no error is raised.
\* ------------------------------------------------------------------------
C6_NoPreyNoError ==
    (/\ \A k \in 1..Len(organisms) : organisms[k].name # "Giant Tubeworm"
     /\ \A j \in 1..Len(features) : features[j].compounds # <<>>)
        => error # "IndexError"

\* ------------------------------------------------------------------------
\* C7: the per-species mean energies of a population in which a species has
\* no member are computed without a division fault: the species is left out
\* and the means of the others are returned.
\* ------------------------------------------------------------------------
C7_MeansWithoutFault ==
    (\E n \in Species : \A k \in 1..Len(organisms) : organisms[k].name # n)
        => error # "ZeroDivisionError"

\* ------------------------------------------------------------------------
\* C8: an ecosystem with an empty feature list is rejected at construction:
\* none ever runs a cycle, so the nearest-feature lookup never meets an
\* empty collection.
\* ------------------------------------------------------------------------
C8_FeaturesNeverEmpty ==
    /\ turns > 0 => features # <<>>
    /\ error # "ValueError"

\* ---- C9 ----
\* what one iteration did, read off the state before and after it; the
\* values of the state after it are named once and then compared
InOrder ==
    Iterated =>
        \A n \in {Len(organisms)}, k \in {i'}, gained \in {energy_gained'},
           t \in {temperature'}, p \in {pressure'}, after \in {organisms'},
           f \in {feature'}, c \in {compound'}, q \in {prey'} :
        \A me \in {after[k]}, fed \in {FAdd(organisms[k].energy, gained)} :
        /\ k = IF i = n THEN 1 ELSE i + 1
        /\ Len(organisms') = n
        /\ me.name = organisms[k].name /\ me.size = organisms[k].size
        /\ \A j \in 1..n :
             j # k => /\ after[j].name = organisms[j].name
                      /\ after[j].size = organisms[j].size
                      /\ after[j].x = organisms[j].x
                      /\ after[j].y = organisms[j].y
                      /\ (j # q \/ ~Preyed(printed')) =>
                           after[j].energy = organisms[j].energy
        /\ features # <<>> =>
             /\ f \in 1..Len(features)
             /\ \A j \in 1..Len(features) :
                  FeatureDist2(f, me) <= FeatureDist2(j, me)
        /\ ~Foraged => me.energy = organisms[k].energy /\ printed' = <<>>
        /\ Foraged =>
             /\ c \in 1..Len(features[f].compounds)
             /\ t = temperature_map[me.x][me.y]
             /\ p = FromInt(100 + 10 * me.y)
             /\ gained =
                  FMul(FMul(features[f].compounds[c].energy, me.size),
                       FMax0(Efficiency(t, p)))
             /\ Len(printed') >= 1
             /\ printed'[1].text = "gained energy from"
             /\ printed'[1].name = me.name
             /\ printed'[1].x = me.x /\ printed'[1].y = me.y
             /\ printed'[1].feature = features[f].name
             /\ printed'[1].compound = features[f].compounds[c].name
             /\ (q # 0 \/ error' = "IndexError") <=>
                  (me.name = "Yeti Crab" /\ FLess(Ten, fed))
             /\ Preyed(printed') =>
                  /\ q \in 1..n
                  /\ PlainDist2(me.x, me.y, organisms[q].x, organisms[q].y) < 4
                  /\ after[q].energy = FDivInt(organisms[q].energy, 2)
                  /\ me.energy = FAdd(fed, after[q].energy)
             /\ ~Preyed(printed') => me.energy = fed

\* C9: the iterations of simulate_cycle take the organisms one by one in
\* list order.  An iteration moves its organism, forages on the feature
\* nearest to the new position, samples temperature and pressure at the new
\* position, metabolizes, prints the foraging line and only then applies
\* the predation rule: the energy > 10 test sees the energy after this
\* iteration's gain, the distance test the predator's new position and the
\* prey's position as it is now, and nothing of any organism other than the
\* one whose turn it is changes, except the energy of a prey that is hit.
C9_CycleOrder == [][InOrder]_vars

\* the second organism of three, a crab whose energy was exactly 10 before
\* its turn, has preyed on the first, which had already left its corner in
\* this cycle
C9_Witness ==
    /\ Len(organisms) = 3 /\ i = 2 /\ prey = 1 /\ Preyed(printed)
    /\ <<organisms[1].x, organisms[1].y>> # StartCell
    /\ FLess(FZero, energy_gained)
    /\ organisms[2].energy = FAdd(FAdd(Ten, energy_gained), organisms[1].energy)

====
